---- MODULE Spec2Model ----
(***************************************************************************)
(* State-machine model of the RTMP streaming example app:                  *)
(*   - SimpleRtmpStreamingApp    (src/unnamed/part_000, the managed-stream *)
(*     variant that src/src/webview.ts drives),                            *)
(*   - the onTranscription voice handler of ExampleAugmentOSApp            *)
(*     (src/src/index.ts), attached to the same session closure.           *)
(*                                                                         *)
(* JavaScript runs one callback at a time, so every action below is one    *)
(* run-to-completion slice of a handler: from its entry (or from the       *)
(* resumption after an await) up to the next await, return or throw.       *)
(* Timestamps (new Date()) and console output are not modelled.            *)
(***************************************************************************)
EXTENDS Integers, Sequences, FiniteSets, Bags, TLC

(***************************************************************************)
(* Bounds of the model.                                                    *)
(***************************************************************************)
\* number of onSession calls (UserStreamState objects ever allocated)
MaxSessions == 2
\* number of transport calls that may be awaiting their answer at once
MaxPending == 2
\* number of handler slices in a behaviour
MaxSteps == 4

Users == {"u1", "u2"}

(***************************************************************************)
(* JavaScript values.                                                      *)
(***************************************************************************)
\* an optional string field or argument that is not there
Undefined == "<undefined>"

\* arguments that reach setRtmpUrlForUser from an untyped request body
Str(s) == [type |-> "string", val |-> s]
UndefinedVal == [type |-> "undefined", val |-> ""]
NumberVal == [type |-> "number", val |-> "42"]

\* !v is false
Truthy(v) == v.type = "number" \/ (v.type = "string" /\ v.val # "")

\* truthiness of an optional string
TruthyStr(s) == s # Undefined /\ s # ""

\* a || b on optional strings
OrElse(a, b) == IF TruthyStr(a) THEN a ELSE b

defaultRtmpUrl == "rtmp://0.0.0.0/s/streamKey"
UrlRtmp == "rtmp://host/key"
UrlRtmps == "rtmps://host/key"
UrlNoScheme == "not-a-url"

\* newUrl.startsWith('rtmp://') || newUrl.startsWith('rtmps://'), on the URLs used here
HasRtmpScheme(url) == url \in {defaultRtmpUrl, UrlRtmp, UrlRtmps}

\* what a caller may pass as newUrl
NewUrlInputs == {Str(UrlRtmp), Str(UrlNoScheme), Str(""), NumberVal}
\* what a caller may pass as the optional rtmpUrl of startStreamForUser
OverrideInputs == {Undefined, "", UrlNoScheme}

\* error.message of a rejected transport call
TransportErrors == {"transport failed"}

(***************************************************************************)
(* Map<K, V> as a function on the set of its keys.                         *)
(***************************************************************************)
EmptyMap == [k \in {} |-> 0]
MapHas(m, k) == k \in DOMAIN m
MapSet(m, k, v) == [x \in DOMAIN m \cup {k} |-> IF x = k THEN v ELSE m[x]]
\* mutant of MapDelete: the map is cleared
MapDeleteAll(m, k) == EmptyMap
MapDelete(m, k) == [x \in DOMAIN m \ {k} |-> m[x]]

(***************************************************************************)
(* Status objects.                                                         *)
(***************************************************************************)
Phases == {"initializing", "active", "error", "stopped"}

RtmpStreamStatus(status, errorDetails) ==
    [type |-> "rtmp_stream_status", status |-> status, errorDetails |-> errorDetails]

getInitialStreamStatus == RtmpStreamStatus("stopped", Undefined)

\* { ...this.getInitialStreamStatus(), status: 'error', errorDetails: error.message }
errorStreamStatus(message) ==
    [getInitialStreamStatus EXCEPT !.status = "error", !.errorDetails = message]

\* managedStreamStatus: null
Null == [null |-> TRUE]

NoUrls == [hlsUrl |-> Undefined, dashUrl |-> Undefined, webrtcUrl |-> Undefined,
           streamId |-> Undefined]
UrlsA == [hlsUrl |-> "hlsA", dashUrl |-> "dashA", webrtcUrl |-> "webrtcA",
          streamId |-> "streamA"]
UrlsB == [hlsUrl |-> "hlsB", dashUrl |-> "dashB", webrtcUrl |-> "webrtcB",
          streamId |-> "streamB"]
\* what startManagedStream() may resolve to
ManagedUrls == {UrlsA, UrlsB}

ManagedStreamStatus(status, urls, message) ==
    [type |-> "managed_stream_status", status |-> status,
     hlsUrl |-> urls.hlsUrl, dashUrl |-> urls.dashUrl, webrtcUrl |-> urls.webrtcUrl,
     streamId |-> urls.streamId, message |-> message]

\* the status events the transport may deliver
StreamStatusEvents ==
    { RtmpStreamStatus("initializing", Undefined),
      RtmpStreamStatus("active", Undefined),
      RtmpStreamStatus("error", "encoder died"),
      RtmpStreamStatus("stopped", "encoder died") }

ManagedStatusEvents ==
    { ManagedStreamStatus("initializing", UrlsA, Undefined),
      ManagedStreamStatus("active", UrlsA, Undefined),
      ManagedStreamStatus("error", NoUrls, "relay died"),
      ManagedStreamStatus("stopped", NoUrls, Undefined) }

(***************************************************************************)
(* The program's state.                                                    *)
(***************************************************************************)
VARIABLES
    activeUserStates,        \* Map userId -> reference to a UserStreamState
    persistentUserSettings,  \* Map userId -> {rtmpUrl}
    heap,                    \* the UserStreamState objects, by reference;
                             \* object i belongs to the i-th session
    sessionOpen,             \* sessionOpen[i]: session i has not disconnected
    pending,                 \* bag of transport calls awaiting their answer
    last,                    \* the slice that ran last, and its outcome
    steps                    \* number of slices run so far

vars == <<activeUserStates, persistentUserSettings, heap, sessionOpen, pending, last, steps>>

Sids == 1..Len(heap)

\* the UserStreamState that activeUserStates holds for userId, or null
Found(userId) ==
    IF MapHas(activeUserStates, userId) THEN heap[activeUserStates[userId]] ELSE Null

\* The record of one slice of a handler:
\*   op, at      the handler, and whether the slice is its entry ("call") or the
\*               resumption after an await ("resume")
\*   userId, sid the user and the session (closure) it ran for; NoSid if none
\*   arg         its argument; for a resumption, how the awaited call settled
\*   before      the UserStreamState the slice worked on, as it found it: the
\*               closure's own object for a resumption and for the onConnected and
\*               onTranscription handlers, the registry's entry otherwise
\*   result      "returned", "threw", "awaiting" (suspended at an await),
\*               "dropped" (a status event without a registry entry), or the
\*               value returned
\*   error       the message of the error thrown
\*   calls       the calls this handler invocation has made on its collaborators
Outcome(op, at, userId, sid, arg, result, error, calls) ==
    [op |-> op, at |-> at, userId |-> userId, sid |-> sid, arg |-> arg,
     before |-> IF at = "resume" \/ op \in {"onConnected", "onTranscription"}
                THEN heap[sid] ELSE Found(userId),
     result |-> result, error |-> error, calls |-> calls]

NoError == ""
NoSid == 0

\* a slice ran with this outcome
Ran(outcome) ==
    /\ steps' = steps + 1
    /\ last' = outcome

Init ==
    /\ activeUserStates = EmptyMap
    /\ persistentUserSettings = EmptyMap
    /\ heap = << >>
    /\ sessionOpen = << >>
    /\ pending = EmptyBag
    /\ last = Outcome("constructor", "call", "", NoSid, Undefined, "returned", NoError, << >>)
    /\ steps = 0

(***************************************************************************)
(* onSession: a device session for userId starts.                          *)
(***************************************************************************)
\* mutant of seedRtmpUrl: every session starts from the default URL
seedRtmpUrlDefault(userId) == defaultRtmpUrl

\* persistentSettings?.rtmpUrl || this.defaultRtmpUrl
seedRtmpUrl(userId) ==
    IF MapHas(persistentUserSettings, userId)
    THEN OrElse(persistentUserSettings[userId].rtmpUrl, defaultRtmpUrl)
    ELSE defaultRtmpUrl

\* mutant of newUserState: a reconnect takes over the state object already registered
newUserStateReusing(userId, userRtmpUrl) ==
    IF MapHas(activeUserStates, userId)
    THEN [Found(userId) EXCEPT !.rtmpUrl = userRtmpUrl]
    ELSE [userId |-> userId, rtmpUrl |-> userRtmpUrl,
          streamStatus |-> getInitialStreamStatus, managedStreamStatus |-> Null]

newUserState(userId, userRtmpUrl) ==
    [userId |-> userId,
     rtmpUrl |-> userRtmpUrl,
     streamStatus |-> getInitialStreamStatus,
     managedStreamStatus |-> Null]

onSession(userId) ==
    /\ Len(heap) < MaxSessions
    /\ LET sid == Len(heap) + 1 IN
       /\ heap' = Append(heap, newUserState(userId, seedRtmpUrl(userId)))
       /\ sessionOpen' = Append(sessionOpen, TRUE)
       /\ activeUserStates' = MapSet(activeUserStates, userId, sid)
       /\ Ran(Outcome("onSession", "call", userId, sid, Undefined,
                          "returned", NoError, << >>))
    /\ UNCHANGED <<persistentUserSettings, pending>>

(***************************************************************************)
(* onDisconnected of session sid.                                          *)
(***************************************************************************)
onDisconnected(sid) ==
    /\ sid \in Sids
    /\ sessionOpen[sid]
    /\ sessionOpen' = [sessionOpen EXCEPT ![sid] = FALSE]
    /\ activeUserStates' = MapDelete(activeUserStates, heap[sid].userId)
    /\ Ran(Outcome("onDisconnected", "call", heap[sid].userId, sid, Undefined,
                       "returned", NoError, << >>))
    /\ UNCHANGED <<persistentUserSettings, heap, pending>>

(***************************************************************************)
(* setRtmpUrlForUser(userId, newUrl).                                      *)
(***************************************************************************)
InvalidUrlMessage == "RTMP URL must be a non-empty string"

\* mutant of rejectsNewUrl: the scheme check is enforced instead of advisory
rejectsNewUrlStrict(newUrl) ==
    ~Truthy(newUrl) \/ newUrl.type # "string" \/ ~HasRtmpScheme(newUrl.val)

\* !newUrl || typeof newUrl !== 'string'
rejectsNewUrl(newUrl) == ~Truthy(newUrl) \/ newUrl.type # "string"

\* mutant of setRtmpUrlForUser: the URL is persisted and the live session is left alone
setRtmpUrlForUserStoreOnly(userId, newUrl) ==
    IF rejectsNewUrl(newUrl)
    THEN /\ Ran(Outcome("setRtmpUrlForUser", "call", userId, NoSid, newUrl,
                            "threw", InvalidUrlMessage, << >>))
         /\ UNCHANGED <<activeUserStates, persistentUserSettings, heap, sessionOpen, pending>>
    ELSE /\ persistentUserSettings' =
                MapSet(persistentUserSettings, userId, [rtmpUrl |-> newUrl.val])
         /\ Ran(Outcome("setRtmpUrlForUser", "call", userId,
                        IF MapHas(activeUserStates, userId)
                        THEN activeUserStates[userId] ELSE NoSid,
                        newUrl, "returned", NoError,
                        IF HasRtmpScheme(newUrl.val) THEN << >> ELSE <<"console.warn">>))
         /\ UNCHANGED <<activeUserStates, heap, sessionOpen, pending>>

setRtmpUrlForUser(userId, newUrl) ==
    IF rejectsNewUrl(newUrl)
    THEN /\ Ran(Outcome("setRtmpUrlForUser", "call", userId, NoSid, newUrl,
                            "threw", InvalidUrlMessage, << >>))
         /\ UNCHANGED <<activeUserStates, persistentUserSettings, heap, sessionOpen, pending>>
    ELSE /\ persistentUserSettings' =
                MapSet(persistentUserSettings, userId, [rtmpUrl |-> newUrl.val])
         /\ IF MapHas(activeUserStates, userId)
            THEN heap' = [heap EXCEPT ![activeUserStates[userId]].rtmpUrl = newUrl.val]
            ELSE UNCHANGED heap
         /\ Ran(Outcome("setRtmpUrlForUser", "call", userId,
                        IF MapHas(activeUserStates, userId)
                        THEN activeUserStates[userId] ELSE NoSid,
                        newUrl, "returned", NoError,
                        IF HasRtmpScheme(newUrl.val) THEN << >> ELSE <<"console.warn">>))
         /\ UNCHANGED <<activeUserStates, sessionOpen, pending>>

(***************************************************************************)
(* Transport calls of session.camera and session.streaming.  A call is    *)
(* issued in one slice and answered later; the awaiting handler resumes in *)
(* its own slice.  `obj` is the UserStreamState the awaiting closure holds *)
(* (a reference: the object stays the same one even if the registry entry  *)
(* of the user has been deleted or replaced meanwhile).                    *)
(***************************************************************************)
Request(call, obj, rtmpUrl, cont, data, calls) ==
    [call |-> call, obj |-> obj, rtmpUrl |-> rtmpUrl, cont |-> cont,
     data |-> data, calls |-> calls]

NoData == [text |-> << >>, isFinal |-> FALSE]

Resolved(urls) == [ok |-> TRUE, urls |-> urls, message |-> Undefined]
Rejected(message) == [ok |-> FALSE, urls |-> NoUrls, message |-> message]

\* how the transport may answer a call
Answers(req) ==
    (IF req.call = "startManagedStream"
     THEN {Resolved(u) : u \in ManagedUrls}
     ELSE {Resolved(NoUrls)})
    \cup {Rejected(m) : m \in TransportErrors}

CanIssue == BagCardinality(pending) < MaxPending
Issue(req) == pending (+) SetToBag({req})
Settle(req) == pending (-) SetToBag({req})

NoSessionMessages ==
    { "No active session for user to start stream.",
      "No active session for user to stop stream.",
      "No active session for user to start managed stream.",
      "No active session for user to stop managed stream." }

\* mutant of throwNoSession: the lookup registers an empty state before it throws
throwNoSessionCreating(op, userId, arg, message) ==
    /\ ~MapHas(activeUserStates, userId)
    /\ Len(heap) < MaxSessions
    /\ heap' = Append(heap, [userId |-> userId, rtmpUrl |-> defaultRtmpUrl,
                             streamStatus |-> getInitialStreamStatus,
                             managedStreamStatus |-> Null])
    /\ sessionOpen' = Append(sessionOpen, FALSE)
    /\ activeUserStates' = MapSet(activeUserStates, userId, Len(heap) + 1)
    /\ Ran(Outcome(op, "call", userId, NoSid, arg, "threw", message, << >>))
    /\ UNCHANGED <<persistentUserSettings, pending>>

\* an operation called for a user that activeUserStates does not hold
throwNoSession(op, userId, arg, message) ==
    /\ ~MapHas(activeUserStates, userId)
    /\ Ran(Outcome(op, "call", userId, NoSid, arg, "threw", message, << >>))
    /\ UNCHANGED <<activeUserStates, persistentUserSettings, heap, sessionOpen, pending>>

(***************************************************************************)
(* startStreamForUser(userId, rtmpUrl?).                                   *)
(***************************************************************************)
\* mutant of urlToUse: the session's URL goes before the one passed in
urlToUseSessionFirst(rtmpUrl, userState) ==
    OrElse(userState.rtmpUrl, OrElse(rtmpUrl, defaultRtmpUrl))

\* rtmpUrl || userState.rtmpUrl || this.defaultRtmpUrl
urlToUse(rtmpUrl, userState) ==
    OrElse(rtmpUrl, OrElse(userState.rtmpUrl, defaultRtmpUrl))

startStreamForUser(userId, rtmpUrl) ==
    \/ throwNoSession("startStreamForUser", userId, rtmpUrl,
                      "No active session for user to start stream.")
    \/ /\ MapHas(activeUserStates, userId)
       /\ CanIssue
       /\ LET obj == activeUserStates[userId]
              url == urlToUse(rtmpUrl, heap[obj])
          IN /\ heap' = [heap EXCEPT ![obj].rtmpUrl = url]
             /\ pending' = Issue(Request("startStream", obj, url, "startStreamForUser",
                                         NoData, <<"startStream">>))
             /\ Ran(Outcome("startStreamForUser", "call", userId, obj, rtmpUrl,
                                "awaiting", NoError, <<"startStream">>))
       /\ UNCHANGED <<activeUserStates, persistentUserSettings, sessionOpen>>

\* mutant of catchStreamError: the catch block records the message and keeps the status
catchStreamErrorKeepingStatus(userState, message) ==
    [userState EXCEPT !.streamStatus.errorDetails = message]

\* mutant of catchStreamError: the catch block only rethrows
catchStreamErrorRethrowOnly(userState, message) == userState

\* the catch block of startStreamForUser / stopStreamForUser
catchStreamError(userState, message) ==
    [userState EXCEPT !.streamStatus = errorStreamStatus(message)]

\* mutant of streamCallSettled: an accepted call marks the stream active itself
streamCallSettledOptimistic(req, answer) ==
    /\ pending' = Settle(req)
    /\ IF answer.ok
       THEN /\ heap' = [heap EXCEPT ![req.obj].streamStatus =
                                        RtmpStreamStatus("active", Undefined)]
            /\ Ran(Outcome(req.cont, "resume", heap[req.obj].userId, req.obj,
                               answer, "returned", NoError, req.calls))
       ELSE /\ heap' = [heap EXCEPT ![req.obj] = catchStreamError(@, answer.message)]
            /\ Ran(Outcome(req.cont, "resume", heap[req.obj].userId, req.obj,
                               answer, "threw", answer.message, req.calls))
    /\ UNCHANGED <<activeUserStates, persistentUserSettings, sessionOpen>>

\* the resumption of an awaiting start/stop: return, or catch and rethrow
streamCallSettled(req, answer) ==
    /\ pending' = Settle(req)
    /\ IF answer.ok
       THEN /\ UNCHANGED heap
            /\ Ran(Outcome(req.cont, "resume", heap[req.obj].userId, req.obj,
                               answer, "returned", NoError, req.calls))
       ELSE /\ heap' = [heap EXCEPT ![req.obj] = catchStreamError(@, answer.message)]
            /\ Ran(Outcome(req.cont, "resume", heap[req.obj].userId, req.obj,
                               answer, "threw", answer.message, req.calls))
    /\ UNCHANGED <<activeUserStates, persistentUserSettings, sessionOpen>>

startStreamSettled(req, answer) ==
    /\ req.cont = "startStreamForUser"
    /\ streamCallSettled(req, answer)

(***************************************************************************)
(* stopStreamForUser(userId).                                              *)
(***************************************************************************)
\* mutant of requestStop: a stop waits for the calls in flight for the same state
requestStopExclusive(userId) ==
    /\ MapHas(activeUserStates, userId)
    /\ CanIssue
    /\ \A req \in BagToSet(pending) : req.obj # activeUserStates[userId]
    /\ LET obj == activeUserStates[userId] IN
          /\ pending' = Issue(Request("stopStream", obj, Undefined, "stopStreamForUser",
                                      NoData, <<"stopStream">>))
          /\ Ran(Outcome("stopStreamForUser", "call", userId, obj, Undefined,
                         "awaiting", NoError, <<"stopStream">>))
    /\ UNCHANGED <<activeUserStates, persistentUserSettings, heap, sessionOpen>>

\* the body of stopStreamForUser once the state is found: whatever the status,
\* the stop is passed on to the transport
requestStop(userId) ==
    /\ MapHas(activeUserStates, userId)
    /\ CanIssue
    /\ LET obj == activeUserStates[userId] IN
          /\ pending' = Issue(Request("stopStream", obj, Undefined, "stopStreamForUser",
                                      NoData, <<"stopStream">>))
          /\ Ran(Outcome("stopStreamForUser", "call", userId, obj, Undefined,
                         "awaiting", NoError, <<"stopStream">>))
    /\ UNCHANGED <<activeUserStates, persistentUserSettings, heap, sessionOpen>>

\* mutant of stopStreamForUser: a stop of a stream that is already stopped is
\* refused locally
stopStreamForUserGuarded(userId) ==
    \/ throwNoSession("stopStreamForUser", userId, Undefined,
                      "No active session for user to stop stream.")
    \/ /\ MapHas(activeUserStates, userId)
       /\ Found(userId).streamStatus.status = "stopped"
       /\ Ran(Outcome("stopStreamForUser", "call", userId, activeUserStates[userId],
                      Undefined, "threw", "Stream is not running.", << >>))
       /\ UNCHANGED <<activeUserStates, persistentUserSettings, heap, sessionOpen, pending>>
    \/ /\ MapHas(activeUserStates, userId)
       /\ Found(userId).streamStatus.status # "stopped"
       /\ requestStop(userId)

stopStreamForUser(userId) ==
    \/ throwNoSession("stopStreamForUser", userId, Undefined,
                      "No active session for user to stop stream.")
    \/ requestStop(userId)

stopStreamSettled(req, answer) ==
    /\ req.cont = "stopStreamForUser"
    /\ streamCallSettled(req, answer)

(***************************************************************************)
(* startManagedStreamForUser(userId).                                      *)
(***************************************************************************)
startManagedStreamForUser(userId) ==
    \/ throwNoSession("startManagedStreamForUser", userId, Undefined,
                      "No active session for user to start managed stream.")
    \/ /\ MapHas(activeUserStates, userId)
       /\ CanIssue
       /\ LET obj == activeUserStates[userId] IN
             /\ pending' = Issue(Request("startManagedStream", obj, Undefined,
                                         "startManagedStreamForUser", NoData,
                                         <<"startManagedStream">>))
             /\ Ran(Outcome("startManagedStreamForUser", "call", userId, obj, Undefined,
                                "awaiting", NoError, <<"startManagedStream">>))
       /\ UNCHANGED <<activeUserStates, persistentUserSettings, heap, sessionOpen>>

\* mutant of managedInitializing: the status stored does not take the urls over
managedInitializingWithoutUrls(urls) == ManagedStreamStatus("initializing", NoUrls, Undefined)

\* the status stored when startManagedStream() resolved to urls
managedInitializing(urls) == ManagedStreamStatus("initializing", urls, Undefined)

\* the status stored by the catch block of startManagedStreamForUser
managedStartError(message) == ManagedStreamStatus("error", NoUrls, message)

\* mutant of startManagedSettled: the resumption registers the state it worked on
startManagedSettledRegistering(req, answer) ==
    /\ req.cont = "startManagedStreamForUser"
    /\ pending' = Settle(req)
    /\ activeUserStates' = MapSet(activeUserStates, heap[req.obj].userId, req.obj)
    /\ IF answer.ok
       THEN /\ heap' = [heap EXCEPT ![req.obj].managedStreamStatus =
                                        managedInitializing(answer.urls)]
            /\ Ran(Outcome(req.cont, "resume", heap[req.obj].userId, req.obj,
                               answer, answer.urls, NoError, req.calls))
       ELSE /\ heap' = [heap EXCEPT ![req.obj].managedStreamStatus =
                                        managedStartError(answer.message)]
            /\ Ran(Outcome(req.cont, "resume", heap[req.obj].userId, req.obj,
                               answer, "threw", answer.message, req.calls))
    /\ UNCHANGED <<persistentUserSettings, sessionOpen>>

startManagedSettled(req, answer) ==
    /\ req.cont = "startManagedStreamForUser"
    /\ pending' = Settle(req)
    /\ IF answer.ok
       THEN /\ heap' = [heap EXCEPT ![req.obj].managedStreamStatus =
                                        managedInitializing(answer.urls)]
            /\ Ran(Outcome(req.cont, "resume", heap[req.obj].userId, req.obj,
                               answer, answer.urls, NoError, req.calls))
       ELSE /\ heap' = [heap EXCEPT ![req.obj].managedStreamStatus =
                                        managedStartError(answer.message)]
            /\ Ran(Outcome(req.cont, "resume", heap[req.obj].userId, req.obj,
                               answer, "threw", answer.message, req.calls))
    /\ UNCHANGED <<activeUserStates, persistentUserSettings, sessionOpen>>

(***************************************************************************)
(* stopManagedStreamForUser(userId).                                       *)
(***************************************************************************)
stopManagedStreamForUser(userId) ==
    \/ throwNoSession("stopManagedStreamForUser", userId, Undefined,
                      "No active session for user to stop managed stream.")
    \/ /\ MapHas(activeUserStates, userId)
       /\ CanIssue
       /\ LET obj == activeUserStates[userId] IN
             /\ pending' = Issue(Request("stopManagedStream", obj, Undefined,
                                         "stopManagedStreamForUser", NoData,
                                         <<"stopManagedStream">>))
             /\ Ran(Outcome("stopManagedStreamForUser", "call", userId, obj, Undefined,
                                "awaiting", NoError, <<"stopManagedStream">>))
       /\ UNCHANGED <<activeUserStates, persistentUserSettings, heap, sessionOpen>>

\* mutant of catchManagedStopError: a failed stop stores a new error status
catchManagedStopErrorFresh(managedStreamStatus, message) ==
    ManagedStreamStatus("error", NoUrls, message)

\* mutant of catchManagedStopError: a failed stop clears the status
catchManagedStopErrorClearing(managedStreamStatus, message) == Null

\* the catch block of stopManagedStreamForUser
catchManagedStopError(managedStreamStatus, message) ==
    IF managedStreamStatus # Null
    THEN [managedStreamStatus EXCEPT !.status = "error", !.message = message]
    ELSE managedStreamStatus

stopManagedSettled(req, answer) ==
    /\ req.cont = "stopManagedStreamForUser"
    /\ pending' = Settle(req)
    /\ IF answer.ok
       THEN /\ UNCHANGED heap
            /\ Ran(Outcome(req.cont, "resume", heap[req.obj].userId, req.obj,
                               answer, "returned", NoError, req.calls))
       ELSE /\ heap' = [heap EXCEPT ![req.obj].managedStreamStatus =
                                        catchManagedStopError(@, answer.message)]
            /\ Ran(Outcome(req.cont, "resume", heap[req.obj].userId, req.obj,
                               answer, "threw", answer.message, req.calls))
    /\ UNCHANGED <<activeUserStates, persistentUserSettings, sessionOpen>>

(***************************************************************************)
(* session.events.onConnected: the glasses of session sid connected.       *)
(* The closure holds userState, the object onSession created.              *)
(***************************************************************************)
onConnected(sid) ==
    /\ sid \in Sids
    /\ sessionOpen[sid]
    /\ CanIssue
    /\ pending' = Issue(Request("startStream", sid, heap[sid].rtmpUrl, "onConnected",
                                NoData, <<"startStream">>))
    /\ Ran(Outcome("onConnected", "call", heap[sid].userId, sid, Undefined,
                       "awaiting", NoError, <<"startStream">>))
    /\ UNCHANGED <<activeUserStates, persistentUserSettings, heap, sessionOpen>>

\* mutant of catchHandlerError: the catch block only notifies the user
catchHandlerErrorNotifyOnly(userState, message) == userState

\* the catch block of the onConnected and onTranscription handlers
catchHandlerError(userState, message) ==
    [userState EXCEPT !.streamStatus = errorStreamStatus(message)]

\* after the try/catch the handler awaits requestPhoto(); nothing follows that
\* await, so the photo request is recorded in `calls` and not in `pending`
onConnectedSettled(req, answer) ==
    /\ req.cont = "onConnected"
    /\ pending' = Settle(req)
    /\ heap' = IF answer.ok THEN heap
               ELSE [heap EXCEPT ![req.obj] = catchHandlerError(@, answer.message)]
    /\ Ran(Outcome("onConnected", "resume", heap[req.obj].userId, req.obj, answer,
                       "awaiting", NoError, Append(req.calls, "requestPhoto")))
    /\ UNCHANGED <<activeUserStates, persistentUserSettings, sessionOpen>>

(***************************************************************************)
(* session.events.onTranscription (src/src/index.ts).  A text is the       *)
(* sequence of its characters.                                             *)
(***************************************************************************)
Lower(c) ==
    CASE c = "A" -> "a" [] c = "E" -> "e" [] c = "G" -> "g" [] c = "I" -> "i"
      [] c = "M" -> "m" [] c = "N" -> "n" [] c = "O" -> "o" [] c = "P" -> "p"
      [] c = "R" -> "r" [] c = "S" -> "s" [] c = "T" -> "t"
      [] OTHER -> c

\* text.toLowerCase()
toLowerCase(text) == [i \in 1..Len(text) |-> Lower(text[i])]

\* text.includes(phrase)
includes(text, phrase) ==
    \E i \in 1..(Len(text) - Len(phrase) + 1) :
        SubSeq(text, i, i + Len(phrase) - 1) = phrase

StopPhrase ==
    <<"s", "t", "o", "p", " ", "s", "t", "r", "e", "a", "m", "i", "n", "g">>
StartPhrase ==
    <<"s", "t", "a", "r", "t", " ", "s", "t", "r", "e", "a", "m", "i", "n", "g">>

\* "please stop streaming now"
TextPleaseStop ==
    <<"p", "l", "e", "a", "s", "e", " ", "s", "t", "o", "p", " ", "s", "t", "r",
      "e", "a", "m", "i", "n", "g", " ", "n", "o", "w">>
\* "START Streaming"
TextStart ==
    <<"S", "T", "A", "R", "T", " ", "S", "t", "r", "e", "a", "m", "i", "n", "g">>
\* "start streaming Stop streaming"
TextBoth ==
    <<"s", "t", "a", "r", "t", " ", "s", "t", "r", "e", "a", "m", "i", "n", "g", " ",
      "S", "t", "o", "p", " ", "s", "t", "r", "e", "a", "m", "i", "n", "g">>
\* "stop the stream"
TextNeither ==
    <<"s", "t", "o", "p", " ", "t", "h", "e", " ", "s", "t", "r", "e", "a", "m">>

Texts == {TextPleaseStop, TextStart, TextBoth, TextNeither}
TranscriptionData == [text : Texts, isFinal : BOOLEAN]

\* the texts for which text.toLowerCase().includes(phrase) is true
textsIncluding(phrase) == {text \in Texts : includes(toLowerCase(text), phrase)}
TextsWithStop == textsIncluding(StopPhrase)
TextsWithStart == textsIncluding(StartPhrase)

\* mutant of saysStop: the phrase counts in a segment that is not final, too
saysStopAnyFinality(data) == data.text \in TextsWithStop

\* data.isFinal && data.text.toLowerCase().includes("stop streaming")
saysStop(data) == data.isFinal /\ data.text \in TextsWithStop

\* data.isFinal && data.text.toLowerCase().includes("start streaming")
saysStart(data) == data.isFinal /\ data.text \in TextsWithStart

\* mutant of startBranch: the second `if` is an `else if`
startBranchElse(data) == saysStart(data) /\ ~saysStop(data)

\* the second `if` of the handler: reached after the first one is done with
startBranch(data) == saysStart(data)

\* the handler from the second `if` on; calls: the transport calls it made so far
transcriptionFrom2ndIf(sid, data, calls, at, nextPending) ==
    IF startBranch(data)
    THEN /\ pending' = nextPending (+)
                SetToBag({Request("startStream", sid, heap'[sid].rtmpUrl,
                                  "onTranscription.start", data,
                                  Append(calls, "startStream"))})
         /\ Ran(Outcome("onTranscription", at, heap[sid].userId, sid, data,
                            "awaiting", NoError, Append(calls, "startStream")))
    ELSE /\ pending' = nextPending
         /\ Ran(Outcome("onTranscription", at, heap[sid].userId, sid, data,
                            "returned", NoError, calls))

onTranscription(sid, data) ==
    /\ sid \in Sids
    /\ sessionOpen[sid]
    /\ IF saysStop(data)
       THEN /\ CanIssue
            /\ pending' = Issue(Request("stopStream", sid, Undefined,
                                        "onTranscription.stop", data, <<"stopStream">>))
            /\ Ran(Outcome("onTranscription", "call", heap[sid].userId, sid, data,
                               "awaiting", NoError, <<"stopStream">>))
            /\ UNCHANGED heap
       ELSE /\ startBranch(data) => CanIssue
            /\ UNCHANGED heap
            /\ transcriptionFrom2ndIf(sid, data, << >>, "call", pending)
    /\ UNCHANGED <<activeUserStates, persistentUserSettings, sessionOpen>>

\* stopStream() of the first `if` was answered: catch, then go on to the second `if`
transcriptionStopSettled(req, answer) ==
    /\ req.cont = "onTranscription.stop"
    /\ heap' = IF answer.ok THEN heap
               ELSE [heap EXCEPT ![req.obj] = catchHandlerError(@, answer.message)]
    /\ transcriptionFrom2ndIf(req.obj, req.data, req.calls, "resume", Settle(req))
    /\ UNCHANGED <<activeUserStates, persistentUserSettings, sessionOpen>>

\* requestStream() of the second `if` was answered: catch, then the handler ends
transcriptionStartSettled(req, answer) ==
    /\ req.cont = "onTranscription.start"
    /\ pending' = Settle(req)
    /\ heap' = IF answer.ok THEN heap
               ELSE [heap EXCEPT ![req.obj] = catchHandlerError(@, answer.message)]
    /\ Ran(Outcome("onTranscription", "resume", heap[req.obj].userId, req.obj,
                       req.data, "returned", NoError, req.calls))
    /\ UNCHANGED <<activeUserStates, persistentUserSettings, sessionOpen>>

(***************************************************************************)
(* session.camera.onStreamStatus: session sid delivers a status event.     *)
(* The closure holds userId and looks the state up in activeUserStates.    *)
(* An event may arrive after the session has disconnected.                 *)
(***************************************************************************)
\* mutant of mergeStreamStatus: an event that carries errorDetails counts as an error
mergeStreamStatusErrorFirst(status) ==
    IF status.errorDetails # Undefined THEN [status EXCEPT !.status = "error"] ELSE status

\* currentUserState.streamStatus = { ...status, timestamp: new Date() }, then the switch
mergeStreamStatus(status) ==
    IF status.status = "stopped"
    THEN [status EXCEPT !.type = "rtmp_stream_status", !.status = "stopped"]
    ELSE status

onStreamStatus(sid, status) ==
    /\ sid \in Sids
    /\ LET userId == heap[sid].userId IN
       IF MapHas(activeUserStates, userId)
       THEN /\ heap' = [heap EXCEPT ![activeUserStates[userId]].streamStatus =
                                        mergeStreamStatus(status)]
            /\ Ran(Outcome("onStreamStatus", "call", userId, sid, status,
                               "returned", NoError, << >>))
       ELSE /\ UNCHANGED heap
            /\ Ran(Outcome("onStreamStatus", "call", userId, sid, status,
                               "dropped", NoError, << >>))
    /\ UNCHANGED <<activeUserStates, persistentUserSettings, sessionOpen, pending>>

(***************************************************************************)
(* session.camera.onManagedStreamStatus.                                   *)
(***************************************************************************)
\* mutant of mergeManagedStatus: only status and message of the event are stored
mergeManagedStatusBare(status) ==
    IF status.status = "stopped" THEN Null
    ELSE ManagedStreamStatus(status.status, NoUrls, status.message)

\* currentUserState.managedStreamStatus = { ...status, timestamp }, then the switch
mergeManagedStatus(status) ==
    IF status.status = "stopped" THEN Null ELSE status

\* mutant of onManagedStreamStatus: the handler writes to the state object its
\* closure holds instead of looking the user up
onManagedStreamStatusCaptured(sid, status) ==
    /\ sid \in Sids
    /\ heap' = [heap EXCEPT ![sid].managedStreamStatus = mergeManagedStatus(status)]
    /\ Ran(Outcome("onManagedStreamStatus", "call", heap[sid].userId, sid, status,
                   "returned", NoError, << >>))
    /\ UNCHANGED <<activeUserStates, persistentUserSettings, sessionOpen, pending>>

onManagedStreamStatus(sid, status) ==
    /\ sid \in Sids
    /\ LET userId == heap[sid].userId IN
       IF MapHas(activeUserStates, userId)
       THEN /\ heap' = [heap EXCEPT ![activeUserStates[userId]].managedStreamStatus =
                                        mergeManagedStatus(status)]
            /\ Ran(Outcome("onManagedStreamStatus", "call", userId, sid, status,
                               "returned", NoError, << >>))
       ELSE /\ UNCHANGED heap
            /\ Ran(Outcome("onManagedStreamStatus", "call", userId, sid, status,
                               "dropped", NoError, << >>))
    /\ UNCHANGED <<activeUserStates, persistentUserSettings, sessionOpen, pending>>

(***************************************************************************)
(* Queries (GET /api/stream-info).                                         *)
(***************************************************************************)
\* mutant of getRtmpUrlForUser: only the live session is asked
getRtmpUrlForUserLiveOnly(userId) ==
    IF MapHas(activeUserStates, userId)
    THEN OrElse(heap[activeUserStates[userId]].rtmpUrl, defaultRtmpUrl)
    ELSE defaultRtmpUrl

getRtmpUrlForUser(userId) ==
    IF MapHas(persistentUserSettings, userId)
    THEN persistentUserSettings[userId].rtmpUrl
    ELSE IF MapHas(activeUserStates, userId)
         THEN OrElse(heap[activeUserStates[userId]].rtmpUrl, defaultRtmpUrl)
         ELSE defaultRtmpUrl

\* mutant of getStreamStatusForUser: the query always answers with the initial status
getStreamStatusForUserInitial(userId) == getInitialStreamStatus

getStreamStatusForUser(userId) ==
    IF MapHas(activeUserStates, userId)
    THEN heap[activeUserStates[userId]].streamStatus
    ELSE getInitialStreamStatus

getManagedStreamStatusForUser(userId) ==
    IF MapHas(activeUserStates, userId)
    THEN heap[activeUserStates[userId]].managedStreamStatus
    ELSE Null

\* req.authUserId of a request that is not authenticated
NoAuthUser == Undefined

\* the stopped status the unauthenticated answer carries
streamStoppedStatus == RtmpStreamStatus("stopped", Undefined)

\* the answer of GET /api/stream-info: res.status(401).json(...) without a
\* user, res.json(...) with one
streamInfoResponse(authUserId) ==
    IF authUserId = NoAuthUser
    THEN [code |-> "401", rtmpUrl |-> defaultRtmpUrl,
          streamStatus |-> streamStoppedStatus, userId |-> NoAuthUser]
    ELSE [code |-> "200", rtmpUrl |-> getRtmpUrlForUser(authUserId),
          streamStatus |-> getStreamStatusForUser(authUserId), userId |-> authUserId]

\* GET /api/stream-info
getStreamInfo(authUserId) ==
    /\ Ran(Outcome("getStreamInfo", "call", authUserId, NoSid, Undefined,
                   streamInfoResponse(authUserId), NoError, << >>))
    /\ UNCHANGED <<activeUserStates, persistentUserSettings, heap, sessionOpen, pending>>

(***************************************************************************)
(* The next-state relation.                                                *)
(***************************************************************************)
\* a behaviour is MaxSteps slices long at most
Budget == steps < MaxSteps

Next ==
    \/ Budget /\ \E userId \in Users : onSession(userId)
    \/ Budget /\ \E sid \in Sids : onDisconnected(sid)
    \/ Budget /\ \E userId \in Users, newUrl \in NewUrlInputs : setRtmpUrlForUser(userId, newUrl)
    \/ Budget /\ \E userId \in Users, rtmpUrl \in OverrideInputs : startStreamForUser(userId, rtmpUrl)
    \/ Budget /\ \E userId \in Users : stopStreamForUser(userId)
    \/ Budget /\ \E userId \in Users : startManagedStreamForUser(userId)
    \/ Budget /\ \E userId \in Users : stopManagedStreamForUser(userId)
    \/ Budget /\ \E sid \in Sids : onConnected(sid)
    \/ Budget /\ \E sid \in Sids, data \in TranscriptionData : onTranscription(sid, data)
    \/ Budget /\ \E sid \in Sids, status \in StreamStatusEvents : onStreamStatus(sid, status)
    \/ Budget /\ \E sid \in Sids, status \in ManagedStatusEvents : onManagedStreamStatus(sid, status)
    \/ Budget /\ \E authUserId \in Users \cup {NoAuthUser} : getStreamInfo(authUserId)
    \/ Budget /\ \E req \in BagToSet(pending) : \E answer \in Answers(req) : startStreamSettled(req, answer)
    \/ Budget /\ \E req \in BagToSet(pending) : \E answer \in Answers(req) : stopStreamSettled(req, answer)
    \/ Budget /\ \E req \in BagToSet(pending) : \E answer \in Answers(req) : startManagedSettled(req, answer)
    \/ Budget /\ \E req \in BagToSet(pending) : \E answer \in Answers(req) : stopManagedSettled(req, answer)
    \/ Budget /\ \E req \in BagToSet(pending) : \E answer \in Answers(req) : onConnectedSettled(req, answer)
    \/ Budget /\ \E req \in BagToSet(pending) : \E answer \in Answers(req) : transcriptionStopSettled(req, answer)
    \/ Budget /\ \E req \in BagToSet(pending) : \E answer \in Answers(req) : transcriptionStartSettled(req, answer)

Spec == Init /\ [][Next]_vars

(***************************************************************************)
(* Properties.                                                             *)
(***************************************************************************)

\* C1: right after onSession(userId) the registry holds the state created for
\* userId, its direct status is 'stopped' and its managed status is null.
C1_CreatedStopped ==
    last.op = "onSession" =>
        /\ MapHas(activeUserStates, last.userId)
        /\ activeUserStates[last.userId] = last.sid
        /\ Found(last.userId).userId = last.userId
        /\ Found(last.userId).streamStatus.status = "stopped"
        /\ Found(last.userId).managedStreamStatus = Null

\* a session was created over a registered state that was active, with a managed stream
C1_Witness ==
    /\ last.op = "onSession"
    /\ last.before # Null
    /\ last.before.streamStatus.status = "active"
    /\ last.before.managedStreamStatus # Null
    /\ Found(last.userId).streamStatus.status = "stopped"

\* C2: persistent settings survive disconnect.  A disconnect changes no entry;
\* an entry of user u changes only in setRtmpUrlForUser(u, ..), which leaves the
\* URL it was given; and every session created for a user with an entry is
\* seeded with the URL of that entry.
C2_PersistentSettingsSurvive ==
    [][ /\ (last'.op = "onDisconnected"
              => persistentUserSettings' = persistentUserSettings)
        /\ \A u \in Users :
              (MapHas(persistentUserSettings, u)
                 /\ ~(last'.op = "setRtmpUrlForUser" /\ last'.userId = u))
              => (MapHas(persistentUserSettings', u)
                    /\ persistentUserSettings'[u] = persistentUserSettings[u])
        /\ (last'.op = "setRtmpUrlForUser" /\ last'.result = "returned"
              => (MapHas(persistentUserSettings', last'.userId)
                    /\ persistentUserSettings'[last'.userId].rtmpUrl = last'.arg.val))
        /\ (last'.op = "onSession" /\ MapHas(persistentUserSettings, last'.userId)
              => heap'[last'.sid].rtmpUrl = persistentUserSettings[last'.userId].rtmpUrl)
      ]_vars

\* a user reconnected after a disconnect and got the URL set before
C2_Witness ==
    /\ last.op = "onSession"
    /\ last.sid = 2
    /\ heap[1].userId = last.userId
    /\ ~sessionOpen[1]
    /\ last.before = Null
    /\ MapHas(persistentUserSettings, last.userId)
    /\ persistentUserSettings[last.userId].rtmpUrl = UrlNoScheme
    /\ heap[2].rtmpUrl = UrlNoScheme

StreamOperations ==
    {"startStreamForUser", "stopStreamForUser",
     "startManagedStreamForUser", "stopManagedStreamForUser"}

\* C4: each of the four stream operations, called for a user without a registry
\* entry, throws its "No active session" error, makes no transport call and
\* leaves the registry, the state objects and the settings as they were.
C4_NoActiveSession ==
    [][ (/\ last'.op \in StreamOperations
         /\ last'.at = "call"
         /\ ~MapHas(activeUserStates, last'.userId))
        => /\ last'.result = "threw"
           /\ last'.error \in NoSessionMessages
           /\ last'.calls = << >>
           /\ UNCHANGED <<activeUserStates, persistentUserSettings, heap, pending>>
      ]_vars

\* a start was refused for a user whose session had disconnected
C4_Witness ==
    /\ last.op = "startStreamForUser"
    /\ last.result = "threw"
    /\ last.error \in NoSessionMessages
    /\ ~MapHas(activeUserStates, last.userId)
    /\ \E sid \in Sids : heap[sid].userId = last.userId /\ ~sessionOpen[sid]

\* C5: stopStreamForUser for a registered user is never refused locally, whatever
\* the direct status: every call passes exactly one stopStream on to the
\* transport and changes no state, so two calls in a row pass on two.
C5_StopPermissive ==
    [][ (/\ last'.op = "stopStreamForUser"
         /\ last'.at = "call"
         /\ MapHas(activeUserStates, last'.userId))
        => /\ last'.result = "awaiting"
           /\ last'.error = NoError
           /\ \E req \in BagToSet(pending') :
                 /\ req.call = "stopStream"
                 /\ req.obj = activeUserStates[last'.userId]
                 /\ pending' = pending (+) SetToBag({req})
           /\ UNCHANGED <<activeUserStates, persistentUserSettings, heap>>
      ]_vars

\* two stops in a row of a stream that is stopped are both with the transport
C5_Witness ==
    /\ last.op = "stopStreamForUser"
    /\ last.result = "awaiting"
    /\ last.before.streamStatus.status = "stopped"
    /\ \E req \in BagToSet(pending) :
          /\ req.call = "stopStream"
          /\ req.cont = "stopStreamForUser"
          /\ req.obj = last.sid
          /\ CopiesIn(req, pending) = 2

\* C6: after a direct status event with status 'stopped' was handled for a
\* registered user, the user's streamStatus.status is 'stopped', whatever else
\* the event carried and whatever the status was before.
C6_StoppedEventStops ==
    (/\ last.op = "onStreamStatus"
     /\ last.arg.status = "stopped"
     /\ MapHas(activeUserStates, last.userId))
    => Found(last.userId).streamStatus.status = "stopped"

\* a 'stopped' event that carried errorDetails was handled while the stream was active
C6_Witness ==
    /\ last.op = "onStreamStatus"
    /\ last.arg = RtmpStreamStatus("stopped", "encoder died")
    /\ last.before # Null
    /\ last.before.streamStatus.status = "active"
    /\ Found(last.userId).streamStatus.status = "stopped"

\* C7: the managedStreamStatus of a state object goes from present to null in a
\* step only if the step handles a 'stopped' managed status event for the user
\* who holds that object, and handling such an event for a registered user
\* always leaves it null.
C7_OnlyStoppedEventClears ==
    [][ /\ \A sid \in Sids :
              (heap[sid].managedStreamStatus # Null
                 /\ heap'[sid].managedStreamStatus = Null)
              => (/\ last'.op = "onManagedStreamStatus"
                  /\ last'.arg.status = "stopped"
                  /\ MapHas(activeUserStates, last'.userId)
                  /\ activeUserStates[last'.userId] = sid)
        /\ (/\ last'.op = "onManagedStreamStatus"
            /\ last'.arg.status = "stopped"
            /\ MapHas(activeUserStates, last'.userId))
           => heap'[activeUserStates[last'.userId]].managedStreamStatus = Null
      ]_vars

\* a 'stopped' managed event cleared a managed status that was present
C7_Witness ==
    /\ last.op = "onManagedStreamStatus"
    /\ last.arg.status = "stopped"
    /\ last.before # Null
    /\ last.before.managedStreamStatus # Null
    /\ Found(last.userId).managedStreamStatus = Null

\* C8: a direct or managed status event for a user without registry entry is
\* dropped: nothing is thrown, no state object, registry entry or setting
\* changes, and no entry is created.
C8_EventWithoutSessionDropped ==
    [][ (/\ last'.op \in {"onStreamStatus", "onManagedStreamStatus"}
         /\ ~MapHas(activeUserStates, last'.userId))
        => /\ last'.result = "dropped"
           /\ last'.error = NoError
           /\ UNCHANGED <<activeUserStates, persistentUserSettings, heap,
                           sessionOpen, pending>>
      ]_vars

\* the user disconnected with an active managed stream, then its 'stopped' event came
C8_Witness ==
    /\ last.op = "onManagedStreamStatus"
    /\ last.arg.status = "stopped"
    /\ last.result = "dropped"
    /\ ~sessionOpen[last.sid]
    /\ heap[last.sid].managedStreamStatus # Null
    /\ heap[last.sid].managedStreamStatus.status = "active"
    /\ ~MapHas(activeUserStates, last.userId)

\* what a segment says, read off its text
HasStop(data) == includes(toLowerCase(data.text), StopPhrase)
HasStart(data) == includes(toLowerCase(data.text), StartPhrase)

\* C9 as claimed: a final segment makes the handler dispatch at most one of
\* stop/start; with "stop streaming" in it exactly one stop and no start, even
\* if "start streaming" is in it too; with only "start streaming" one start.
C9_AsClaimed ==
    (last.op = "onTranscription" /\ last.arg.isFinal)
    => /\ Len(last.calls) <= 1
       /\ (last.result = "returned" /\ HasStop(last.arg))
            => last.calls = <<"stopStream">>
       /\ (last.result = "returned" /\ HasStart(last.arg) /\ ~HasStop(last.arg))
            => last.calls = <<"startStream">>

\* the calls the handler makes for a final segment, in order
DispatchedFor(data) ==
    (IF HasStop(data) THEN <<"stopStream">> ELSE << >>)
    \o (IF HasStart(data) THEN <<"startStream">> ELSE << >>)

\* C9 amended: for a final segment the handler dispatches one stop iff the text
\* has "stop streaming" and one start iff it has "start streaming" (whatever the
\* case); with both in the text it dispatches the stop first and, when that was
\* answered, the start.
C9_StopThenStart ==
    (last.op = "onTranscription" /\ last.arg.isFinal)
    => /\ last.result \in {"awaiting", "returned"}
       /\ last.result = "returned" => last.calls = DispatchedFor(last.arg)
       /\ last.result = "awaiting" =>
             /\ last.calls # << >>
             /\ Len(last.calls) <= Len(DispatchedFor(last.arg))
             /\ last.calls = SubSeq(DispatchedFor(last.arg), 1, Len(last.calls))
             /\ \E req \in BagToSet(pending) :
                   /\ req.call = last.calls[Len(last.calls)]
                   /\ req.obj = last.sid
                   /\ req.data = last.arg

\* the handler ended after a segment with both phrases: it stopped, then started
C9_Witness ==
    /\ last.op = "onTranscription"
    /\ last.arg = [text |-> TextBoth, isFinal |-> TRUE]
    /\ last.result = "returned"
    /\ last.calls = <<"stopStream", "startStream">>

\* C10: a segment that is not final makes the handler return at once, with no
\* transport call made or left to make and no state changed, whatever its text.
C10_NonFinalOnlyDisplayed ==
    [][ (last'.op = "onTranscription" /\ ~last'.arg.isFinal)
        => /\ last'.at = "call"
           /\ last'.result = "returned"
           /\ last'.calls = << >>
           /\ UNCHANGED <<activeUserStates, persistentUserSettings, heap,
                           sessionOpen, pending>>
      ]_vars

\* a segment with both phrases that is not final came in while the stream was active
C10_Witness ==
    /\ last.op = "onTranscription"
    /\ last.arg = [text |-> TextBoth, isFinal |-> FALSE]
    /\ last.before.streamStatus.status = "active"
    /\ Found(last.userId).streamStatus.status = "active"
    /\ pending = EmptyBag

\* the start request the connect trigger of session sid has with the transport
AutoStartOf(sid) ==
    {req \in BagToSet(pending) : req.cont = "onConnected" /\ req.obj = sid}

\* C11: when the session of a user without persisted settings has just been
\* created, its connect trigger passes exactly one startStream with the default
\* URL to the transport; and when the transport has just reported 'active' for
\* such a user, whose session still has the URL it was created with, the
\* stream-info query that follows answers with the default URL and status 'active'.
C11_AutoStartScenario ==
    [][ /\ (/\ last.op = "onSession"
            /\ ~MapHas(persistentUserSettings, last.userId)
            /\ last'.op = "onConnected"
            /\ last'.at = "call"
            /\ last'.sid = last.sid)
           => /\ last'.calls = <<"startStream">>
              /\ \E req \in BagToSet(pending') :
                    /\ req.cont = "onConnected"
                    /\ req.obj = last.sid
                    /\ req.call = "startStream"
                    /\ req.rtmpUrl = defaultRtmpUrl
                    /\ pending' = pending (+) SetToBag({req})
        /\ (/\ last.op = "onStreamStatus"
            /\ last.arg.status = "active"
            /\ last.result = "returned"
            /\ ~MapHas(persistentUserSettings, last.userId)
            /\ Found(last.userId).rtmpUrl = defaultRtmpUrl
            /\ last'.op = "getStreamInfo"
            /\ last'.userId = last.userId)
           => /\ last'.result.rtmpUrl = defaultRtmpUrl
              /\ last'.result.streamStatus.status = "active"
      ]_vars

\* u1 connected, the trigger's start is with the transport, 'active' was
\* reported, and stream-info was asked for
C11_Witness ==
    /\ last.op = "getStreamInfo"
    /\ last.userId = "u1"
    /\ last.result.rtmpUrl = defaultRtmpUrl
    /\ last.result.streamStatus.status = "active"
    /\ ~MapHas(persistentUserSettings, "u1")
    /\ MapHas(activeUserStates, "u1")
    /\ \E req \in AutoStartOf(activeUserStates["u1"]) : req.rtmpUrl = defaultRtmpUrl

\* C12 as claimed: onSession for a userId that activeUserStates already holds
\* fails with AlreadyConnected, and the state registered for that user stays
\* registered and keeps its rtmpUrl, streamStatus and managedStreamStatus.
C12_AsClaimed ==
    [][ (last'.op = "onSession" /\ MapHas(activeUserStates, last'.userId))
        => /\ last'.result = "threw"
           /\ last'.error = "AlreadyConnected"
           /\ activeUserStates' = activeUserStates
           /\ heap' = heap
      ]_vars

\* the resumption of a startStreamForUser or stopStreamForUser call
DirectResumed(outcome) ==
    /\ outcome.op \in {"startStreamForUser", "stopStreamForUser"}
    /\ outcome.at = "resume"

\* C13: when the transport rejects the startStream or stopStream of a
\* startStreamForUser / stopStreamForUser call, the call throws the transport's
\* error, the state object it worked on (the user's, while the user holds it)
\* has streamStatus 'error' with that error's message, and the call has made
\* its one transport call and makes no other.
C13_RejectedDirectCall ==
    [][ (DirectResumed(last') /\ ~last'.arg.ok)
        => /\ last'.result = "threw"
           /\ last'.error = last'.arg.message
           /\ heap'[last'.sid].streamStatus = errorStreamStatus(last'.arg.message)
           /\ (MapHas(activeUserStates, last'.userId)
                 /\ activeUserStates[last'.userId] = last'.sid)
              => /\ activeUserStates' = activeUserStates
                 /\ heap'[activeUserStates'[last'.userId]].streamStatus =
                       errorStreamStatus(last'.arg.message)
           /\ Len(last'.calls) = 1
           /\ BagCardinality(pending') = BagCardinality(pending) - 1
           /\ \E req \in BagToSet(pending) :
                 /\ req.obj = last'.sid
                 /\ req.cont = last'.op
                 /\ pending' = pending (-) SetToBag({req})
      ]_vars

\* a stop of an active stream was rejected
C13_Witness ==
    /\ last.op = "stopStreamForUser"
    /\ last.at = "resume"
    /\ last.result = "threw"
    /\ last.before.streamStatus.status = "active"
    /\ MapHas(activeUserStates, last.userId)
    /\ getStreamStatusForUser(last.userId).status = "error"
    /\ getStreamStatusForUser(last.userId).errorDetails = last.error
    /\ pending = EmptyBag

\* C14: a startStreamForUser / stopStreamForUser call that the transport accepts
\* returns without writing to any state: the streamStatus is after the return
\* what it was just before.  The entry slices of both calls leave every
\* streamStatus alone as well, and a streamStatus changes only when a status
\* event is handled, a rejected transport call is caught, or the transcription
\* handler resumes (into its catch block).
C14_AcceptedCallKeepsStatus ==
    [][ /\ (DirectResumed(last') /\ last'.arg.ok)
           => /\ last'.result = "returned"
              /\ heap' = heap
              /\ activeUserStates' = activeUserStates
        /\ (last'.op \in {"startStreamForUser", "stopStreamForUser"} /\ last'.at = "call")
           => \A sid \in Sids : heap'[sid].streamStatus = heap[sid].streamStatus
        /\ \A sid \in Sids :
              heap'[sid].streamStatus # heap[sid].streamStatus
              => \/ last'.op = "onStreamStatus"
                 \/ last'.at = "resume" /\ last'.op = "onTranscription"
                 \/ last'.at = "resume" /\ last'.op # "onTranscription" /\ ~last'.arg.ok
      ]_vars

\* a start was accepted after the 'active' event had come in: the status is
\* still the event's
C14_Witness ==
    /\ last.op = "startStreamForUser"
    /\ last.at = "resume"
    /\ last.arg.ok
    /\ last.result = "returned"
    /\ last.before.streamStatus.status = "active"
    /\ MapHas(activeUserStates, last.userId)
    /\ getStreamStatusForUser(last.userId) = last.before.streamStatus

\* the URL a start is to use: the one passed in if there is one and it is not
\* empty, else the session's if it is not empty, else the default
ResolvedUrl(override, sessionUrl) ==
    IF override \notin {Undefined, ""} THEN override
    ELSE IF sessionUrl \notin {Undefined, ""} THEN sessionUrl
    ELSE defaultRtmpUrl

\* C15: startStreamForUser(userId, rtmpUrl?) for a registered user passes the
\* resolved URL to the transport and has stored it as the session's rtmpUrl by
\* then; its resumption, accepted or rejected, leaves the rtmpUrl alone, so a
\* startStreamForUser(userId) without URL right after the call or after its
\* resumption asks for the same URL.
C15_StartResolvesAndStoresUrl ==
    [][ /\ (/\ last'.op = "startStreamForUser"
            /\ last'.at = "call"
            /\ MapHas(activeUserStates, last'.userId))
           => LET obj == activeUserStates[last'.userId]
                  url == ResolvedUrl(last'.arg, heap[obj].rtmpUrl)
              IN /\ heap'[obj].rtmpUrl = url
                 /\ \E req \in BagToSet(pending') :
                       /\ req.call = "startStream"
                       /\ req.obj = obj
                       /\ req.rtmpUrl = url
                       /\ pending' = pending (+) SetToBag({req})
                 /\ (last.op = "startStreamForUser" /\ last.sid = obj
                       /\ last'.arg = Undefined)
                    => url = heap[obj].rtmpUrl
        /\ (last'.op = "startStreamForUser" /\ last'.at = "resume")
           => \A sid \in Sids : heap'[sid].rtmpUrl = heap[sid].rtmpUrl
      ]_vars

\* a start with a URL and then a start without one are with the transport,
\* both for that URL
C15_Witness ==
    /\ last.op = "startStreamForUser"
    /\ last.at = "call"
    /\ last.arg = Undefined
    /\ ~MapHas(persistentUserSettings, last.userId)
    /\ MapHas(activeUserStates, last.userId)
    /\ Found(last.userId).rtmpUrl = UrlNoScheme
    /\ \E req \in BagToSet(pending) :
          /\ req.cont = "startStreamForUser"
          /\ req.obj = last.sid
          /\ req.rtmpUrl = UrlNoScheme
          /\ CopiesIn(req, pending) = 2

\* C16: when the startManagedStream of a startManagedStreamForUser call
\* resolves to urls, the call returns those urls and the managedStreamStatus
\* is 'initializing' with exactly their hlsUrl, dashUrl, webrtcUrl and
\* streamId; when it is rejected, the managedStreamStatus is 'error' with the
\* error's message and the call throws the error.  Either way, and in the
\* entry slice, streamStatus and rtmpUrl of every state object stay as they are.
C16_StartManagedOutcome ==
    [][ last'.op = "startManagedStreamForUser"
        => /\ \A sid \in Sids :
                 /\ heap'[sid].streamStatus = heap[sid].streamStatus
                 /\ heap'[sid].rtmpUrl = heap[sid].rtmpUrl
                 /\ (sid # last'.sid \/ last'.at = "call") => heap'[sid] = heap[sid]
           /\ last'.at = "resume" =>
                 LET managed == heap'[last'.sid].managedStreamStatus IN
                 IF last'.arg.ok
                 THEN /\ last'.result = last'.arg.urls
                      /\ last'.error = NoError
                      /\ managed # Null
                      /\ managed.status = "initializing"
                      /\ managed.hlsUrl = last'.arg.urls.hlsUrl
                      /\ managed.dashUrl = last'.arg.urls.dashUrl
                      /\ managed.webrtcUrl = last'.arg.urls.webrtcUrl
                      /\ managed.streamId = last'.arg.urls.streamId
                 ELSE /\ last'.result = "threw"
                      /\ last'.error = last'.arg.message
                      /\ managed # Null
                      /\ managed.status = "error"
                      /\ managed.message = last'.arg.message
      ]_vars

\* a managed start of an active direct stream resolved to the urls of stream B
C16_Witness ==
    /\ last.op = "startManagedStreamForUser"
    /\ last.at = "resume"
    /\ last.arg.ok
    /\ last.result = UrlsB
    /\ MapHas(activeUserStates, last.userId)
    /\ getManagedStreamStatusForUser(last.userId) = managedInitializing(UrlsB)
    /\ getStreamStatusForUser(last.userId).status = "active"

\* the operations that await one transport call and rethrow its error
DirectOperations == {"startStreamForUser", "stopStreamForUser"}
ManagedOperations == {"startManagedStreamForUser", "stopManagedStreamForUser"}

\* C17 as claimed: when the transport rejects the call of any of the four
\* stream operations, the state object has the error recorded for the stream
\* kind of the operation: streamStatus 'error' with the message for the direct
\* ones, a managedStreamStatus that is present, 'error' and carries the
\* message for the managed ones, also if it was null before a failed
\* stopManagedStreamForUser.
C17_AsClaimed ==
    [][ (/\ last'.op \in DirectOperations \cup ManagedOperations
         /\ last'.at = "resume"
         /\ ~last'.arg.ok)
        => /\ last'.op \in DirectOperations
              => /\ heap'[last'.sid].streamStatus.status = "error"
                 /\ heap'[last'.sid].streamStatus.errorDetails = last'.arg.message
           /\ last'.op \in ManagedOperations
              => /\ heap'[last'.sid].managedStreamStatus # Null
                 /\ heap'[last'.sid].managedStreamStatus.status = "error"
                 /\ heap'[last'.sid].managedStreamStatus.message = last'.arg.message
      ]_vars

\* the connect trigger of a session resumed with its startStream rejected
AutoStartRejected(outcome) ==
    /\ outcome.op = "onConnected"
    /\ outcome.at = "resume"
    /\ ~outcome.arg.ok

C19_StreamInfoWithoutSession ==
    [][ last'.op = "getStreamInfo"
        => /\ UNCHANGED <<activeUserStates, persistentUserSettings, heap,
                           sessionOpen, pending>>
           /\ last'.error = NoError
           /\ last'.userId = NoAuthUser
              => /\ last'.result.rtmpUrl = defaultRtmpUrl
                 /\ last'.result.streamStatus.status = "stopped"
           /\ (last'.userId \in Users /\ ~MapHas(activeUserStates, last'.userId))
              => /\ last'.result.streamStatus.status = "stopped"
                 /\ last'.result.rtmpUrl =
                       IF MapHas(persistentUserSettings, last'.userId)
                       THEN persistentUserSettings[last'.userId].rtmpUrl
                       ELSE defaultRtmpUrl
      ]_vars

\* stream-info was asked for a user who set a URL, connected and disconnected
C19_Witness ==
    /\ last.op = "getStreamInfo"
    /\ last.userId \in Users
    /\ ~MapHas(activeUserStates, last.userId)
    /\ \E sid \in Sids : heap[sid].userId = last.userId /\ ~sessionOpen[sid]
    /\ MapHas(persistentUserSettings, last.userId)
    /\ last.result.rtmpUrl = UrlRtmp
    /\ last.result.streamStatus.status = "stopped"

\* C20 as claimed: the managedStreamStatus of a session's state is null as
\* long as no managed stream has been requested in the session, and again from
\* the 'stopped' event of the last one requested on: it goes from null to
\* present only in a step of startManagedStreamForUser for that session,
\* whatever managed status events are delivered.
C20_AsClaimed ==
    [][ \A sid \in Sids :
            (heap[sid].managedStreamStatus = Null
               /\ heap'[sid].managedStreamStatus # Null)
            => (last'.op = "startManagedStreamForUser" /\ last'.sid = sid)
      ]_vars

\* C21: stopManagedStreamForUser never changes whether the managedStreamStatus
\* of the state it works on is null: its entry slice and an accepted stop
\* change no state at all, and a rejected stop leaves null at null and gives
\* a status that is there status 'error' and the message, all else in it as
\* it was.
C21_StopManagedKeepsPresence ==
    [][ last'.op = "stopManagedStreamForUser"
        => /\ activeUserStates' = activeUserStates
           /\ persistentUserSettings' = persistentUserSettings
           /\ last'.at = "call" => heap' = heap
           /\ last'.at = "resume" =>
                 LET was == heap[last'.sid].managedStreamStatus
                     is == heap'[last'.sid].managedStreamStatus
                 IN /\ (is = Null) <=> (was = Null)
                    /\ last'.arg.ok => heap' = heap
                    /\ (~last'.arg.ok /\ was # Null)
                       => is = [was EXCEPT !.status = "error",
                                           !.message = last'.arg.message]
                    /\ \A sid \in Sids \ {last'.sid} : heap'[sid] = heap[sid]
      ]_vars

\* the stop of an active managed stream was rejected: the status keeps its urls
C21_Witness ==
    /\ last.op = "stopManagedStreamForUser"
    /\ last.at = "resume"
    /\ ~last.arg.ok
    /\ last.before.managedStreamStatus # Null
    /\ last.before.managedStreamStatus.status = "active"
    /\ heap[last.sid].managedStreamStatus.status = "error"
    /\ heap[last.sid].managedStreamStatus.streamId = UrlsA.streamId
    /\ heap[last.sid].managedStreamStatus.message = last.arg.message

\* a 'stopped' managed status event has just made the managedStreamStatus of a
\* registered user null
JustStopped ==
    /\ last.op = "onManagedStreamStatus"
    /\ last.arg.status = "stopped"
    /\ last.result = "returned"
    /\ last.before.managedStreamStatus # Null

\* C22 as claimed: when a 'stopped' managed status event has made a user's
\* managedStreamStatus null, no step other than the completion of a
\* startManagedStreamForUser call makes it present: a late 'initializing',
\* 'active' or 'error' event of the stopped stream leaves it null.
C22_AsClaimed ==
    [][ (JustStopped /\ ~(last'.op = "startManagedStreamForUser" /\ last'.at = "resume"))
        => heap'[activeUserStates[last.userId]].managedStreamStatus = Null
      ]_vars

\* C23: for a registered user, handling a managed status event 'initializing'
\* or 'active' makes the event, field by field, the user's managedStreamStatus,
\* and handling an 'error' one leaves it present, 'error', with the event's
\* message; handling a direct status event makes the user's streamStatus have
\* the event's status and errorDetails.  Neither handler passes a call to the
\* transport or changes an rtmpUrl, the settings or the registry.
C23_EventsStoredVerbatim ==
    [][ (/\ last'.op \in {"onStreamStatus", "onManagedStreamStatus"}
         /\ MapHas(activeUserStates, last'.userId))
        => LET obj == activeUserStates[last'.userId]
               event == last'.arg
           IN /\ last'.result = "returned"
              /\ last'.calls = << >>
              /\ UNCHANGED <<pending, persistentUserSettings, activeUserStates, sessionOpen>>
              /\ \A sid \in Sids :
                    /\ heap'[sid].rtmpUrl = heap[sid].rtmpUrl
                    /\ sid # obj => heap'[sid] = heap[sid]
              /\ last'.op = "onManagedStreamStatus"
                 => /\ heap'[obj].streamStatus = heap[obj].streamStatus
                    /\ event.status \in {"initializing", "active"}
                       => heap'[obj].managedStreamStatus = event
                    /\ event.status = "error"
                       => /\ heap'[obj].managedStreamStatus # Null
                          /\ heap'[obj].managedStreamStatus.status = "error"
                          /\ heap'[obj].managedStreamStatus.message = event.message
              /\ last'.op = "onStreamStatus"
                 => /\ heap'[obj].managedStreamStatus = heap[obj].managedStreamStatus
                    /\ heap'[obj].streamStatus.status = event.status
                    /\ heap'[obj].streamStatus.errorDetails = event.errorDetails
      ]_vars

\* the 'active' event of stream A replaced the 'initializing' status that the
\* start of stream B had stored
C23_Witness ==
    /\ last.op = "onManagedStreamStatus"
    /\ last.result = "returned"
    /\ last.arg = ManagedStreamStatus("active", UrlsA, Undefined)
    /\ last.before.managedStreamStatus = managedInitializing(UrlsB)
    /\ getManagedStreamStatusForUser(last.userId) = last.arg

\* the start/stop calls of startStreamForUser / stopStreamForUser in flight
DirectInFlight == {req \in BagToSet(pending) : req.cont \in DirectOperations}

\* C24: while a startStream / stopStream of a start or stop operation for a
\* user is in flight, everything else can run and has its effect: status
\* events of the same session are handled and stored, setRtmpUrlForUser for
\* the user stores the URL, the session can disconnect, a new start or stop
\* for the user is passed on to the transport (as far as MaxPending allows),
\* and sessions, operations and events of the other users go on as well.
C24_HungCallBlocksOnlyItself ==
    \A req \in DirectInFlight :
      LET sid == req.obj
          u == heap[sid].userId
      IN /\ \A status \in StreamStatusEvents :
               ENABLED (/\ onStreamStatus(sid, status)
                        /\ MapHas(activeUserStates, u)
                           => heap'[activeUserStates[u]].streamStatus.status = status.status)
         /\ \A status \in ManagedStatusEvents : ENABLED onManagedStreamStatus(sid, status)
         /\ ENABLED (/\ setRtmpUrlForUser(u, Str(UrlRtmps))
                     /\ persistentUserSettings'[u].rtmpUrl = UrlRtmps)
         /\ sessionOpen[sid]
            => ENABLED (onDisconnected(sid) /\ ~MapHas(activeUserStates', u))
         /\ (CanIssue /\ MapHas(activeUserStates, u))
            => /\ ENABLED (requestStop(u) /\ BagCardinality(pending') > BagCardinality(pending))
               /\ ENABLED (/\ startStreamForUser(u, Undefined)
                           /\ BagCardinality(pending') > BagCardinality(pending))
         /\ \A v \in Users \ {u} :
               /\ Len(heap) < MaxSessions
                  => ENABLED (onSession(v) /\ MapHas(activeUserStates', v))
               /\ ENABLED setRtmpUrlForUser(v, Str(UrlRtmps))
               /\ (CanIssue /\ MapHas(activeUserStates, v))
                  => /\ ENABLED requestStop(v)
                     /\ ENABLED (startStreamForUser(v, Undefined)
                                 /\ BagCardinality(pending') > BagCardinality(pending))
               /\ \A other \in Sids :
                     heap[other].userId = v
                     => \A status \in StreamStatusEvents : ENABLED onStreamStatus(other, status)

\* with u's start still in flight, an 'active' event was handled and then a
\* stop for u was passed on
C24_Witness ==
    /\ last.op = "stopStreamForUser"
    /\ last.result = "awaiting"
    /\ getStreamStatusForUser(last.userId).status = "active"
    /\ \E req \in DirectInFlight :
          /\ req.cont = "startStreamForUser"
          /\ req.obj = last.sid

\* setRtmpUrlForUser has just stored a URL for a user with a registered state
UrlSetLive(outcome) ==
    /\ outcome.op = "setRtmpUrlForUser"
    /\ outcome.result = "returned"
    /\ outcome.sid # NoSid

\* C25: setRtmpUrlForUser(u, X) with a state registered for u stores X both as
\* u's persisted rtmpUrl and as the rtmpUrl of that state, leaves streamStatus
\* and managedStreamStatus alone and passes nothing to the transport; a
\* startStreamForUser(u) without URL that follows it asks the transport for X.
C25_SetUrlUpdatesLiveSession ==
    [][ /\ (last'.op = "setRtmpUrlForUser"
              /\ MapHas(activeUserStates, last'.userId)
              /\ ~rejectsNewUrl(last'.arg))
           => LET obj == activeUserStates[last'.userId] IN
              /\ UrlSetLive(last')
              /\ persistentUserSettings'[last'.userId].rtmpUrl = last'.arg.val
              /\ heap'[obj] = [heap[obj] EXCEPT !.rtmpUrl = last'.arg.val]
              /\ \A sid \in Sids \ {obj} : heap'[sid] = heap[sid]
              /\ pending' = pending
              /\ activeUserStates' = activeUserStates
        /\ (/\ UrlSetLive(last)
            /\ last'.op = "startStreamForUser"
            /\ last'.at = "call"
            /\ last'.userId = last.userId
            /\ last'.arg = Undefined)
           => \E req \in BagToSet(pending') :
                 /\ req.call = "startStream"
                 /\ req.obj = last.sid
                 /\ req.rtmpUrl = last.arg.val
                 /\ pending' = pending (+) SetToBag({req})
      ]_vars

\* the session auto-started with the default URL, then the URL was set, and
\* the start without URL that followed is with the transport for the new URL
C25_Witness ==
    /\ last.op = "startStreamForUser"
    /\ last.at = "call"
    /\ last.arg = Undefined
    /\ last.result = "awaiting"
    /\ MapHas(persistentUserSettings, last.userId)
    /\ persistentUserSettings[last.userId].rtmpUrl = UrlRtmp
    /\ \E req \in AutoStartOf(last.sid) : req.rtmpUrl = defaultRtmpUrl
    /\ \E req \in DirectInFlight :
          /\ req.cont = "startStreamForUser"
          /\ req.obj = last.sid
          /\ req.rtmpUrl = UrlRtmp

\* C26: a step taken for one user (a session event, an operation or its
\* resumption, a status event, a transcript segment, a query) leaves every
\* state object of every other user, the other users' registry entries and
\* their persisted settings as they are.
C26_UsersIndependent ==
    [][ \A v \in Users \ {last'.userId} :
          /\ \A sid \in Sids : heap[sid].userId = v => heap'[sid] = heap[sid]
          /\ MapHas(activeUserStates', v) <=> MapHas(activeUserStates, v)
          /\ MapHas(activeUserStates, v) => activeUserStates'[v] = activeUserStates[v]
          /\ MapHas(persistentUserSettings', v) <=> MapHas(persistentUserSettings, v)
          /\ MapHas(persistentUserSettings, v)
             => persistentUserSettings'[v] = persistentUserSettings[v]
      ]_vars

\* u1 disconnected while u2 had an active stream
C26_Witness ==
    /\ last.op = "onDisconnected"
    /\ last.userId = "u1"
    /\ ~MapHas(activeUserStates, "u1")
    /\ MapHas(activeUserStates, "u2")
    /\ getStreamStatusForUser("u2").status = "active"

\* C27 as claimed: a direct or managed status event that comes in through the
\* handle of a session whose state is not the one registered for its user any
\* more (the user reconnected, or connected a second time) leaves the state
\* that is registered for the user as it is.
C27_AsClaimed ==
    [][ (/\ last'.op \in {"onStreamStatus", "onManagedStreamStatus"}
         /\ MapHas(activeUserStates, last'.userId)
         /\ activeUserStates[last'.userId] # last'.sid)
        => heap'[activeUserStates[last'.userId]] = heap[activeUserStates[last'.userId]]
      ]_vars

\* C28 as claimed: the disconnect of a session removes only the registry entry
\* of that session, so that a user with a session that has not disconnected
\* always has a registered state, also when a second session of the user
\* started before the first one disconnected.
C28_AsClaimed ==
    \A sid \in Sids :
        sessionOpen[sid] => MapHas(activeUserStates, heap[sid].userId)

\* C29 as claimed: for every user with a registered state, the rtmpUrl that
\* stream-info answers with is the URL a startStreamForUser without URL
\* would ask the transport for.
C29_AsClaimed ==
    \A userId \in Users :
        MapHas(activeUserStates, userId)
        => streamInfoResponse(userId).rtmpUrl = urlToUse(Undefined, Found(userId))

\* C30 as claimed: when a startManagedStreamForUser call resolves while the
\* managedStreamStatus of its state is 'active' (the 'active' event was handled
\* while the call was in flight), the status is not set back to 'initializing'.
C30_AsClaimed ==
    [][ (/\ last'.op = "startManagedStreamForUser"
         /\ last'.at = "resume"
         /\ last'.arg.ok
         /\ heap[last'.sid].managedStreamStatus # Null
         /\ heap[last'.sid].managedStreamStatus.status = "active")
        => heap'[last'.sid].managedStreamStatus.status # "initializing"
      ]_vars

\* a direct status event has just been stored in state object sid
EventJustStoredIn(sid) ==
    /\ last.op = "onStreamStatus"
    /\ last.result = "returned"
    /\ MapHas(activeUserStates, last.userId)
    /\ activeUserStates[last.userId] = sid

\* C31 as claimed: when a startStreamForUser / stopStreamForUser call resumes,
\* accepted or rejected, right after a direct status event was stored in the
\* state it works on, the streamStatus of that state still has the event's
\* status.
C31_AsClaimed ==
    [][ (DirectResumed(last') /\ EventJustStoredIn(last'.sid))
        => heap'[last'.sid].streamStatus.status = last.arg.status
      ]_vars

\* C31 amended: when the call resumes right after a direct status event was
\* stored in the state it works on, an accepted call leaves the streamStatus
\* with the event's status and errorDetails, and a rejected call replaces it
\* by status 'error' with the message of the rejection.
C31_EventKeptUnlessRejected ==
    [][ (DirectResumed(last') /\ EventJustStoredIn(last'.sid))
        => IF last'.arg.ok
           THEN /\ heap'[last'.sid].streamStatus.status = last.arg.status
                /\ heap'[last'.sid].streamStatus.errorDetails = last.arg.errorDetails
           ELSE /\ heap'[last'.sid].streamStatus.status = "error"
                /\ heap'[last'.sid].streamStatus.errorDetails = last'.arg.message
      ]_vars

\* a start was rejected when the status was 'initializing': it is 'error' now
C31_Witness ==
    /\ last.op = "startStreamForUser"
    /\ last.at = "resume"
    /\ ~last.arg.ok
    /\ last.before.streamStatus.status = "initializing"
    /\ heap[last.sid].streamStatus.status = "error"
    /\ heap[last.sid].streamStatus.errorDetails = last.arg.message

====
